---- MODULE Spec2Model ----
(***************************************************************************)
(* Model of main.py: the POST /api/request endpoint (predict), its two     *)
(* helpers get_answer and search_links, and the log_requests middleware,   *)
(* served by one asyncio event loop.                                       *)
(*                                                                         *)
(* Every request owns one slot r.  pc[r] is the position of the request's  *)
(* coroutine; thread is the request whose coroutine occupies the event     *)
(* loop thread across a synchronous stretch (the blocking upstream calls   *)
(* of get_answer and search_links), or Idle.  log[r] is the projection of  *)
(* the append-only log sink onto the records written for request r.        *)
(***************************************************************************)
EXTENDS Integers, Sequences, FiniteSets, TLC

VARIABLES pc, req, llm, search, answer, sources, reasoning, exc,
          handlerResp, buffered, clientResp, log, thread

vars == <<pc, req, llm, search, answer, sources, reasoning, exc,
          handlerResp, buffered, clientResp, log, thread>>

(***************************************************************************)
(* Bounds                                                                  *)
(***************************************************************************)
NumRequests == 2
MaxId == 2
MaxLen == 4
MaxItems == 4

Requests == 1..NumRequests
Ids == 1..MaxId
Idle == 0

(***************************************************************************)
(* Values                                                                  *)
(***************************************************************************)
\* Characters of an LLM reply: whitespace, sign, digits, any other letter.
Chars == {" ", "-", "0", "1", "x"}
Digits == {"0", "1", "2", "3", "4", "5", "6", "7", "8", "9"}

SeqsUpTo(S, n) == UNION {[1..k -> S] : k \in 0..n}

\* Python values returned by get_answer: an int or None.
IntVal(n) == [type |-> "int", val |-> n]
NoneVal == [type |-> "NoneType", val |-> 0]

\* Outcomes of client.chat.completions.create.
NoLLM == [kind |-> "none", content |-> <<>>]
LLMThrows == [kind |-> "throws", content |-> <<>>]
LLMNoResponse == [kind |-> "no_response", content |-> <<>>]
LLMEmptyChoices == [kind |-> "empty_choices", content |-> <<>>]
LLMNoContent == [kind |-> "no_content", content |-> <<>>]
LLMContent(c) == [kind |-> "content", content |-> c]

AllLLM == {LLMThrows, LLMNoResponse, LLMEmptyChoices, LLMNoContent}
              \cup {LLMContent(c) : c \in SeqsUpTo(Chars, MaxLen)}
SomeLLM == {LLMThrows, LLMEmptyChoices,
            LLMContent(<<"1">>), LLMContent(<<"x", " ", "1", "1">>),
            LLMContent(<<"x">>)}
ConcLLM == {LLMEmptyChoices, LLMContent(<<"1">>)}

\* Search result items: `link` is an http(s) URL, some other text, or absent.
HttpUrls == {"https://a", "https://b"}
NoLink == "None"
Links == HttpUrls \cup {"not a url", NoLink}
Titles == {"T"}
Items == [title : Titles, link : Links]
Item(l) == [title |-> "T", link |-> l]

\* Outcomes of httpx.get / raise_for_status / json.
NoSearch == [kind |-> "none", items |-> <<>>]
SearchNetworkError == [kind |-> "network_error", items |-> <<>>]
SearchHttpError == [kind |-> "http_error", items |-> <<>>]
SearchBadJson == [kind |-> "bad_json", items |-> <<>>]
SearchOk(its) == [kind |-> "ok", items |-> its]

AllSearch == {SearchNetworkError, SearchHttpError, SearchBadJson}
                 \cup {SearchOk(s) : s \in SeqsUpTo(Items, MaxItems)}
SomeSearch == {SearchNetworkError, SearchHttpError, SearchOk(<<>>),
               SearchOk(<<Item("https://a"), Item("https://b")>>),
               SearchOk(<<Item("https://a"), Item("not a url")>>)}
FewSearch == {SearchHttpError, SearchOk(<<Item("https://a"), Item("https://b")>>)}
ConcSearch == {SearchNetworkError}

\* The three fixed texts of main.py, transliterated to ASCII.
Preamble == "Rezultaty poiska ukazyvayut na sleduyushchie istochniki:"
FallbackMessage == "Ne udalos nayti relevantnuyu informatsiyu."
GenericMessage == "Vnutrennyaya oshibka servera"
ValidationText == "validation error for PredictionResponse"
RequestValidationText == "field required"
FaultText == "unexpected failure text"

NoReasoning == [head |-> "", lines |-> <<>>]
NoExc == [type |-> "none", text |-> ""]
Exceptions == {[type |-> "ValueError", text |-> FaultText],
               [type |-> "RuntimeError", text |-> FaultText]}

NoReq == [id |-> 0, hasId |-> FALSE, hasQuery |-> FALSE]
Bodies == {[id |-> i, hasId |-> TRUE, hasQuery |-> q] : i \in Ids, q \in BOOLEAN}
              \cup {[id |-> 0, hasId |-> FALSE, hasQuery |-> q] : q \in BOOLEAN}

NoBody == [id |-> 0, answer |-> 0, reasoning |-> NoReasoning,
           sources |-> <<>>, detail |-> ""]
NoResp == [status |-> 0, body |-> NoBody]
ErrorBody(d) == [NoBody EXCEPT !.detail = d]

LogRecord(lv, k, st, t) == [level |-> lv, kind |-> k, status |-> st, text |-> t]

(***************************************************************************)
(* get_answer: parsing of the reply                                        *)
(***************************************************************************)
\* str.strip().split(): the maximal runs of non-whitespace characters.
RECURSIVE Split(_)
Split(s) ==
    IF s = <<>> THEN <<>>
    ELSE IF Head(s) = " " THEN Split(Tail(s))
    ELSE LET rest == Split(Tail(s))
         IN IF Len(s) > 1 /\ s[2] # " "
            THEN <<(<<Head(s)>> \o Head(rest))>> \o Tail(rest)
            ELSE <<(<<Head(s)>>)>> \o rest

DigitVal(c) ==
    CASE c = "0" -> 0 [] c = "1" -> 1 [] c = "2" -> 2 [] c = "3" -> 3
      [] c = "4" -> 4 [] c = "5" -> 5 [] c = "6" -> 6 [] c = "7" -> 7
      [] c = "8" -> 8 [] c = "9" -> 9

AllDigits(t) == Len(t) >= 1 /\ \A i \in 1..Len(t) : t[i] \in Digits

\* int(token) succeeds on an optional sign followed by decimal digits.
IsIntToken(t) ==
    IF t # <<>> /\ Head(t) = "-" THEN AllDigits(Tail(t)) ELSE AllDigits(t)

RECURSIVE DigitsValue(_)
DigitsValue(t) ==
    IF t = <<>> THEN 0
    ELSE 10 * DigitsValue(SubSeq(t, 1, Len(t) - 1)) + DigitVal(t[Len(t)])

ParseInt(t) ==
    IF Head(t) = "-" THEN 0 - DigitsValue(Tail(t)) ELSE DigitsValue(t)

\* The value get_answer returns for an outcome of the completion call: -1
\* from the except clause (the call throws, message.content is None, the
\* reply has no token, int() rejects the last token), int(last token) on
\* success, and None when the `if` of line 29 is not taken.
get_answer(out) ==
    IF out.kind \in {"throws", "no_content"} THEN IntVal(-1)
    ELSE IF out.kind = "content"
    THEN LET tokens == Split(out.content)
         IN IF tokens = <<>> THEN IntVal(-1)
            ELSE LET answer_num == tokens[Len(tokens)]
                 IN IF IsIntToken(answer_num)
                    THEN IntVal(ParseInt(answer_num))
                    ELSE IntVal(-1)
    ELSE NoneVal

(***************************************************************************)
(* search_links                                                            *)
(***************************************************************************)
\* HttpUrl(link) accepts a link.
ValidUrl(l) == l \in HttpUrls

FirstThree(its) == SubSeq(its, 1, IF Len(its) < 3 THEN Len(its) ELSE 3)

FallbackResult == [links |-> <<>>,
                   reasoning_text |-> [head |-> FallbackMessage, lines |-> <<>>]]

\* search_links keeping the links appended before the first rejected one.
search_links_partial(out) ==
    IF out.kind # "ok" THEN FallbackResult
    ELSE LET taken == FirstThree(out.items)
             bad == {i \in 1..Len(taken) : ~ValidUrl(taken[i].link)}
             n == IF bad = {} THEN Len(taken)
                  ELSE (CHOOSE i \in bad : \A j \in bad : i <= j) - 1
         IN [links |-> [i \in 1..n |-> taken[i].link],
             reasoning_text |->
                 IF bad = {} THEN [head |-> Preamble,
                                   lines |-> [i \in 1..n |->
                                       <<taken[i].title, taken[i].link>>]]
                 ELSE [head |-> FallbackMessage, lines |-> <<>>]]

search_links(out) ==
    IF out.kind # "ok" THEN FallbackResult
    ELSE LET taken == FirstThree(out.items)
         IN IF \E i \in 1..Len(taken) : ~ValidUrl(taken[i].link)
            THEN FallbackResult
            ELSE [links |-> [i \in 1..Len(taken) |-> taken[i].link],
                  reasoning_text |->
                      [head |-> Preamble,
                       lines |-> [i \in 1..Len(taken) |->
                                     <<taken[i].title, taken[i].link>>]]]

(***************************************************************************)
(* The request pipeline                                                    *)
(***************************************************************************)
Init ==
    /\ pc = [r \in Requests |-> "idle"]
    /\ req = [r \in Requests |-> NoReq]
    /\ llm = [r \in Requests |-> NoLLM]
    /\ search = [r \in Requests |-> NoSearch]
    /\ answer = [r \in Requests |-> NoneVal]
    /\ sources = [r \in Requests |-> <<>>]
    /\ reasoning = [r \in Requests |-> NoReasoning]
    /\ exc = [r \in Requests |-> NoExc]
    /\ handlerResp = [r \in Requests |-> NoResp]
    /\ buffered = [r \in Requests |-> NoBody]
    /\ clientResp = [r \in Requests |-> NoResp]
    /\ log = [r \in Requests |-> <<>>]
    /\ thread = Idle

\* logger.info / logger.error: append one record to the sink.
Logged(r, rec) == log' = [log EXCEPT ![r] = Append(@, rec)]

\* The request body satisfies the PredictionRequest shape.
ValidBody(b) == b.hasId /\ b.hasQuery

\* PredictionResponse(...) accepts the value given for `answer`.
ValidAnswer(a) == a.type = "int"

\* The id of the request received in the first slot, as a handler sharing
\* one module-level id would echo it.
ResponseId_Shared(r) == IF req[1].hasId THEN req[1].id ELSE req[r].id

\* The id placed in the response (id=body.id).
ResponseId(r) == req[r].id

\* log_requests, lines 66-68: the request arrives and its body is read.
Receive(r, b) ==
    /\ thread = Idle
    /\ pc[r] = "idle"
    /\ req' = [req EXCEPT ![r] = b]
    /\ pc' = [pc EXCEPT ![r] = "mw_start"]
    /\ UNCHANGED <<llm, search, answer, sources, reasoning, exc, handlerResp,
                   buffered, clientResp, log, thread>>

\* log_requests, lines 69-72: the inbound record.
LogInbound(r) ==
    /\ thread = Idle
    /\ pc[r] = "mw_start"
    /\ Logged(r, LogRecord("info", "inbound", 0, ""))
    /\ pc' = [pc EXCEPT ![r] = "call_next"]
    /\ UNCHANGED <<req, llm, search, answer, sources, reasoning, exc,
                   handlerResp, buffered, clientResp, thread>>

\* call_next, line 74, into the route of lines 95-96: the framework validates
\* the body against PredictionRequest and answers 422 itself when it fails.
Dispatch(r) ==
    /\ thread = Idle
    /\ pc[r] = "call_next"
    /\ IF ValidBody(req[r])
       THEN /\ pc' = [pc EXCEPT ![r] = "predict"]
            /\ UNCHANGED handlerResp
       ELSE /\ pc' = [pc EXCEPT ![r] = "handled"]
            /\ handlerResp' = [handlerResp EXCEPT ![r] =
                   [status |-> 422, body |-> ErrorBody(RequestValidationText)]]
    /\ UNCHANGED <<req, llm, search, answer, sources, reasoning, exc,
                   buffered, clientResp, log, thread>>

\* predict, line 98.
PredictStart(r) ==
    /\ thread = Idle
    /\ pc[r] = "predict"
    /\ Logged(r, LogRecord("info", "processing", 0, ""))
    /\ pc' = [pc EXCEPT ![r] = "llm_send"]
    /\ UNCHANGED <<req, llm, search, answer, sources, reasoning, exc,
                   handlerResp, buffered, clientResp, thread>>

\* predict line 99 into get_answer lines 20-27: the coroutine resumes and
\* issues the blocking completion call on the event loop thread.
SendLLM(r) ==
    /\ thread = Idle
    /\ pc[r] = "llm_send"
    /\ thread' = r
    /\ pc' = [pc EXCEPT ![r] = "llm_wait"]
    /\ UNCHANGED <<req, llm, search, answer, sources, reasoning, exc,
                   handlerResp, buffered, clientResp, log>>

\* get_answer lines 28-35 with outcome `out` of the call; then predict line
\* 100 into search_links lines 38-40, the blocking GET.
GetAnswerReturn(r, out) ==
    /\ thread = r
    /\ pc[r] = "llm_wait"
    /\ llm' = [llm EXCEPT ![r] = out]
    /\ answer' = [answer EXCEPT ![r] = get_answer(out)]
    /\ pc' = [pc EXCEPT ![r] = "search_wait"]
    /\ UNCHANGED <<req, search, sources, reasoning, exc, handlerResp,
                   buffered, clientResp, log, thread>>

\* search_links lines 41-54 with outcome `out` of the GET.
SearchLinksReturn(r, out) ==
    /\ thread = r
    /\ pc[r] = "search_wait"
    /\ search' = [search EXCEPT ![r] = out]
    /\ sources' = [sources EXCEPT ![r] = search_links(out).links]
    /\ reasoning' = [reasoning EXCEPT ![r] = search_links(out).reasoning_text]
    /\ pc' = [pc EXCEPT ![r] = "assemble"]
    /\ UNCHANGED <<req, llm, answer, exc, handlerResp, buffered, clientResp,
                   log, thread>>

\* predict lines 102-107: PredictionResponse(...) validates its fields; the
\* coroutine then reaches an await and gives the thread back.
Assemble(r) ==
    /\ thread = r
    /\ pc[r] = "assemble"
    /\ IF ValidAnswer(answer[r])
       THEN /\ pc' = [pc EXCEPT ![r] = "log_ok"]
            /\ UNCHANGED exc
       ELSE /\ pc' = [pc EXCEPT ![r] = "except_value"]
            /\ exc' = [exc EXCEPT ![r] =
                          [type |-> "ValueError", text |-> ValidationText]]
    /\ thread' = Idle
    /\ UNCHANGED <<req, llm, search, answer, sources, reasoning, handlerResp,
                   buffered, clientResp, log>>

\* A statement of the try block (lines 98, 102-107, 108) raises e.
Fault(r, e) ==
    /\ \/ thread = Idle /\ pc[r] \in {"predict", "log_ok"}
       \/ thread = r /\ pc[r] = "assemble"
    /\ exc' = [exc EXCEPT ![r] = e]
    /\ pc' = [pc EXCEPT ![r] =
                 IF e.type = "ValueError" THEN "except_value" ELSE "except_other"]
    /\ thread' = Idle
    /\ UNCHANGED <<req, llm, search, answer, sources, reasoning, handlerResp,
                   buffered, clientResp, log>>

\* predict lines 108-109.
LogSuccess(r) ==
    /\ thread = Idle
    /\ pc[r] = "log_ok"
    /\ Logged(r, LogRecord("info", "success", 0, ""))
    /\ handlerResp' = [handlerResp EXCEPT ![r] =
           [status |-> 200,
            body |-> [id |-> ResponseId(r), answer |-> answer[r].val,
                      reasoning |-> reasoning[r], sources |-> sources[r],
                      detail |-> ""]]]
    /\ pc' = [pc EXCEPT ![r] = "handled"]
    /\ UNCHANGED <<req, llm, search, answer, sources, reasoning, exc,
                   buffered, clientResp, thread>>

\* predict lines 110-112.
LogValidationError(r) ==
    /\ thread = Idle
    /\ pc[r] = "except_value"
    /\ Logged(r, LogRecord("error", "validation_error", 0, exc[r].text))
    /\ pc' = [pc EXCEPT ![r] = "raise_400"]
    /\ UNCHANGED <<req, llm, search, answer, sources, reasoning, exc,
                   handlerResp, buffered, clientResp, thread>>

\* predict line 113.
Raise400(r) ==
    /\ thread = Idle
    /\ pc[r] = "raise_400"
    /\ handlerResp' = [handlerResp EXCEPT ![r] =
           [status |-> 400, body |-> ErrorBody(exc[r].text)]]
    /\ pc' = [pc EXCEPT ![r] = "handled"]
    /\ UNCHANGED <<req, llm, search, answer, sources, reasoning, exc,
                   buffered, clientResp, log, thread>>

\* predict lines 114-115.
LogInternalError(r) ==
    /\ thread = Idle
    /\ pc[r] = "except_other"
    /\ Logged(r, LogRecord("error", "internal_error", 0, exc[r].text))
    /\ pc' = [pc EXCEPT ![r] = "raise_500"]
    /\ UNCHANGED <<req, llm, search, answer, sources, reasoning, exc,
                   handlerResp, buffered, clientResp, thread>>

\* The detail carrying str(e), as line 113 does for a ValueError.
InternalErrorDetail_Leak(e) == e.text

\* The detail of the HTTPException of line 116.
InternalErrorDetail(e) == GenericMessage

\* predict line 116.
Raise500(r) ==
    /\ thread = Idle
    /\ pc[r] = "raise_500"
    /\ handlerResp' = [handlerResp EXCEPT ![r] =
           [status |-> 500, body |-> ErrorBody(InternalErrorDetail(exc[r]))]]
    /\ pc' = [pc EXCEPT ![r] = "handled"]
    /\ UNCHANGED <<req, llm, search, answer, sources, reasoning, exc,
                   buffered, clientResp, log, thread>>

\* log_requests lines 75-86: buffer the response body, write the completion
\* record.
LogCompletion(r) ==
    /\ thread = Idle
    /\ pc[r] = "handled"
    /\ buffered' = [buffered EXCEPT ![r] = handlerResp[r].body]
    /\ Logged(r, LogRecord("info", "completion", handlerResp[r].status, ""))
    /\ pc' = [pc EXCEPT ![r] = "mw_return"]
    /\ UNCHANGED <<req, llm, search, answer, sources, reasoning, exc,
                   handlerResp, clientResp, thread>>

\* A Response rebuilt without status_code, which defaults to 200.
RebuiltResponse_DefaultStatus(r) == [status |-> 200, body |-> buffered[r]]

\* The Response rebuilt by log_requests, lines 88-93.
RebuiltResponse(r) ==
    [status |-> handlerResp[r].status, body |-> buffered[r]]

\* log_requests lines 88-93.
MwReturn(r) ==
    /\ thread = Idle
    /\ pc[r] = "mw_return"
    /\ clientResp' = [clientResp EXCEPT ![r] = RebuiltResponse(r)]
    /\ pc' = [pc EXCEPT ![r] = "done"]
    /\ UNCHANGED <<req, llm, search, answer, sources, reasoning, exc,
                   handlerResp, buffered, log, thread>>

\* The steps request r can take, with upstream outcomes from L and S.
RequestStep(r, L, S) ==
    \/ pc[r] = "idle" /\ \E b \in Bodies : Receive(r, b)
    \/ LogInbound(r)
    \/ Dispatch(r)
    \/ PredictStart(r)
    \/ SendLLM(r)
    \/ pc[r] = "llm_wait" /\ \E out \in L : GetAnswerReturn(r, out)
    \/ pc[r] = "search_wait" /\ \E out \in S : SearchLinksReturn(r, out)
    \/ Assemble(r)
    \/ \E e \in Exceptions : Fault(r, e)
    \/ LogSuccess(r)
    \/ LogValidationError(r)
    \/ Raise400(r)
    \/ LogInternalError(r)
    \/ Raise500(r)
    \/ LogCompletion(r)
    \/ MwReturn(r)

\* One request, every reply of the LLM service up to MaxLen characters.
Next == RequestStep(1, AllLLM, FewSearch)
Spec == Init /\ [][Next]_vars

\* One request, every search result up to MaxItems items.
NextSearch == RequestStep(1, SomeLLM, AllSearch)
SpecSearch == Init /\ [][NextSearch]_vars

\* NumRequests requests in flight on the one event loop.
NextConc == \E r \in Requests : RequestStep(r, ConcLLM, ConcSearch)
SpecConc == Init /\ [][NextConc]_vars

(***************************************************************************)
(* Properties                                                              *)
(***************************************************************************)
Min(a, b) == IF a < b THEN a ELSE b

LastTokenIsInt(c) ==
    LET t == Split(c) IN t # <<>> /\ IsIntToken(t[Len(t)])

\* The LLM step failed: the call threw, the response was malformed, or the
\* last whitespace-separated token of the reply is not an integer.
LLMStepFailed(out) ==
    \/ out.kind \in {"throws", "no_response", "empty_choices", "no_content"}
    \/ out.kind = "content" /\ ~LastTokenIsInt(out.content)

\* The search step failed: no 2xx JSON answer, or a missing or malformed
\* link among the first three items.
SearchFailed(out) ==
    \/ out.kind \in {"network_error", "http_error", "bad_json"}
    \/ /\ out.kind = "ok"
       /\ \E i \in 1..Min(Len(out.items), 3) : out.items[i].link \notin HttpUrls

Fallback == [head |-> FallbackMessage, lines |-> <<>>]
AfterHandler == {"handled", "mw_return", "done"}

\* C1: every response that carries an `answer` has it in {-1} \cup 1..10,
\* whatever text the LLM service replied with.
C1_AnswerInRange ==
    \A r \in Requests :
        clientResp[r].status = 200 =>
            clientResp[r].body.answer \in ({-1} \cup (1..10))

\* C2: get_answer returns the sentinel -1 on every failure of the LLM step
\* (call throws, malformed response, last token not an integer), and so the
\* answer of the response is -1 in each of these cases.
C2_SentinelOnFailure ==
    \A r \in Requests :
        (llm[r].kind # "none" /\ LLMStepFailed(llm[r])) =>
            /\ answer[r] = IntVal(-1)
            /\ (pc[r] = "done" /\ exc[r].text # FaultText) =>
                   clientResp[r].status = 200 /\ clientResp[r].body.answer = -1

\* C3: a successful search answer with zero items yields sources == [] and
\* the fixed fallback message as reasoning.
C3_ZeroItemsFallback ==
    \A r \in Requests :
        search[r] = SearchOk(<<>>) =>
            sources[r] = <<>> /\ reasoning[r] = Fallback

\* C4: a failure of an upstream service never becomes an HTTP error: the
\* request ends with 200, with empty sources and the fallback reasoning when
\* the search failed, and with the parsed number as answer when the LLM step
\* succeeded.
C4_UpstreamFailureIs200 ==
    \A r \in Requests :
        (/\ pc[r] = "done"
         /\ ValidBody(req[r])
         /\ exc[r].text # FaultText
         /\ LLMStepFailed(llm[r]) \/ SearchFailed(search[r])) =>
            /\ clientResp[r].status = 200
            /\ SearchFailed(search[r]) =>
                   /\ clientResp[r].body.sources = <<>>
                   /\ clientResp[r].body.reasoning = Fallback
            /\ ~LLMStepFailed(llm[r]) =>
                   LET t == Split(llm[r].content)
                   IN clientResp[r].body.answer = ParseInt(t[Len(t)])

\* The sources srcs and reasoning reas are a faithful result for items its.
SourcesFaithful(its, srcs, reas) ==
    LET n == Min(Len(its), 3)
    IN /\ Len(srcs) <= 3
       /\ \A i \in 1..Len(srcs) : srcs[i] \in HttpUrls /\ srcs[i] = its[i].link
       /\ Len(srcs) \in {0, n}
       /\ (\E i \in 1..n : its[i].link \notin HttpUrls) =>
              srcs = <<>> /\ reas = Fallback

\* C5: sources has at most 3 elements, each a validated link, and they are
\* the first items of the search result in result order; a missing or
\* malformed link among the first three items discards the whole result
\* (empty sources, fallback reasoning, never a partial list).
C5_Sources ==
    \A r \in Requests :
        /\ search[r].kind # "none" =>
               SourcesFaithful(search[r].items, sources[r], reasoning[r])
        /\ clientResp[r].status = 200 =>
               SourcesFaithful(search[r].items, clientResp[r].body.sources,
                               clientResp[r].body.reasoning)

C5_Witness ==
    \E r \in Requests :
        /\ pc[r] = "done"
        /\ clientResp[r].status = 200
        /\ Len(search[r].items) = 4
        /\ clientResp[r].body.sources = <<"https://b", "https://a", "https://b">>

\* C6: a request whose body misses `query` or `id` is rejected before
\* get_answer and search_links run and ends with HTTP 400.
C6_MalformedBodyIs400 ==
    \A r \in Requests :
        (pc[r] = "done" /\ ~ValidBody(req[r])) =>
            /\ llm[r] = NoLLM /\ search[r] = NoSearch
            /\ clientResp[r].status = 400

HasErrorRecord(r) ==
    \E i \in 1..Len(log[r]) :
        log[r][i].level = "error" /\ log[r][i].text = exc[r].text

\* C7: an exception of the pipeline that is not a ValueError ends the request
\* with HTTP 500 whose detail is exactly the generic message, never the text
\* of the exception, and the error record is logged before the HTTP error is
\* produced; a ValueError ends it with HTTP 400.
C7_ExceptionMapping ==
    \A r \in Requests :
        /\ (exc[r].type \notin {"none", "ValueError"} /\ pc[r] \in AfterHandler) =>
               /\ handlerResp[r].status = 500
               /\ handlerResp[r].body.detail = GenericMessage
               /\ handlerResp[r].body.detail # exc[r].text
        /\ (exc[r].type = "ValueError" /\ pc[r] \in AfterHandler) =>
               handlerResp[r].status = 400
        /\ handlerResp[r].status \in {400, 500} => HasErrorRecord(r)
        /\ (exc[r].type # "none" /\ pc[r] = "done") =>
               clientResp[r] = handlerResp[r]

C7_Witness ==
    \E r \in Requests :
        /\ pc[r] = "done"
        /\ exc[r].type = "RuntimeError"
        /\ clientResp[r].status = 500

\* C8: every 200 response carries the id of its own request, with any number
\* of requests in flight.
C8_IdEchoed ==
    \A r \in Requests :
        /\ handlerResp[r].status = 200 => handlerResp[r].body.id = req[r].id
        /\ clientResp[r].status = 200 => clientResp[r].body.id = req[r].id

C8_Witness ==
    \E a, b \in Requests :
        /\ a # b
        /\ pc[a] = "done" /\ clientResp[a].status = 200
        /\ pc[b] \notin {"idle", "done"}
        /\ req[b].hasId /\ req[b].id # req[a].id

\* C9: while a request waits on its outbound call to the LLM service or the
\* search API, every other unfinished request can still take a step.
C9_WaitingDoesNotBlock ==
    \A a, b \in Requests :
        (a # b /\ pc[a] \in {"llm_wait", "search_wait"} /\ pc[b] # "done") =>
            ENABLED RequestStep(b, ConcLLM, ConcSearch)

HandlerKinds == {"processing", "success", "validation_error", "internal_error"}

\* C10: the inbound record is logged before the handler starts, the
\* completion record after the handler has finished and before the response
\* is returned; the returned response has the status and body the handler
\* produced, and that status is the one of the completion record.
C10_Middleware ==
    \A r \in Requests :
        /\ pc[r] \notin {"idle", "mw_start"} =>
               Len(log[r]) >= 1 /\ log[r][1].kind = "inbound"
        /\ \A i \in 1..Len(log[r]) :
               /\ log[r][i].kind \in HandlerKinds => i > 1
               /\ log[r][i].kind = "completion" =>
                      /\ i = Len(log[r])
                      /\ pc[r] \in {"mw_return", "done"}
                      /\ log[r][i].status = handlerResp[r].status
        /\ pc[r] = "done" =>
               /\ log[r][Len(log[r])].kind = "completion"
               /\ clientResp[r].status = handlerResp[r].status
               /\ clientResp[r].body = handlerResp[r].body
               /\ log[r][Len(log[r])].status = clientResp[r].status
               /\ clientResp[r].status \in {200, 400, 422, 500}

C10_Witness ==
    \E a, b \in Requests :
        /\ pc[a] = "done" /\ clientResp[a].status = 200
        /\ pc[b] = "done" /\ clientResp[b].status = 500

====
